---- MODULE Spec2Model ----
(***************************************************************************)
(* A model of jira-task-tracker.py: one run of main(), from the parsed     *)
(* command line to the printed report.  Strings are sequences of character *)
(* codes, so that lowercasing, concatenation and the code-point ordering   *)
(* used by sorted() are computed rather than assumed.                      *)
(***************************************************************************)
EXTENDS Integers, Sequences, FiniteSets, TLC

\* ---------------------------------------------------------------- strings
\* ANSI colour codes (module constants of the script)
RESET == <<27, 91, 48, 109>>  \* '\x1b[0m'
RED == <<27, 91, 51, 49, 109>>  \* '\x1b[31m'
GREEN == <<27, 91, 51, 50, 109>>  \* '\x1b[32m'
YELLOW == <<27, 91, 57, 51, 109>>  \* '\x1b[93m'

\* literals of the script
Yes == <<89, 101, 115>>  \* 'Yes'
No == <<78, 111>>  \* 'No'
k_ticket == <<116, 105, 99, 107, 101, 116>>  \* 'ticket'
k_summary == <<115, 117, 109, 109, 97, 114, 121>>  \* 'summary'
k_status == <<115, 116, 97, 116, 117, 115>>  \* 'status'
k_interacted == <<105, 110, 116, 101, 114, 97, 99, 116, 101, 100>>  \* 'interacted'
h_Ticket == <<84, 105, 99, 107, 101, 116>>  \* 'Ticket'
a_Summary == <<83, 117, 109, 109, 97, 114, 121>>  \* 'Summary'
a_Status == <<83, 116, 97, 116, 117, 115>>  \* 'Status'
h_Interacted == <<73, 110, 116, 101, 114, 97, 99, 116, 101, 100>>  \* 'Interacted'
s_done == <<100, 111, 110, 101>>  \* 'done'
s_cancelled == <<99, 97, 110, 99, 101, 108, 108, 101, 100>>  \* 'cancelled'
s_in_progress == <<105, 110, 32, 112, 114, 111, 103, 114, 101, 115, 115>>  \* 'in progress'
s_awaiting_feedback == <<97, 119, 97, 105, 116, 105, 110, 103, 32, 102, 101, 101, 100, 98, 97, 99, 107>>  \* 'awaiting feedback'
s_in_review == <<105, 110, 32, 114, 101, 118, 105, 101, 119>>  \* 'in review'
s_to_do == <<116, 111, 32, 100, 111>>  \* 'to do'
s_on_hold == <<111, 110, 32, 104, 111, 108, 100>>  \* 'on hold'
txt_User == <<85, 115, 101, 114, 32>>  \* 'User '
txt_worked_on == <<32, 119, 111, 114, 107, 101, 100, 32, 111, 110, 32>>  \* ' worked on '
txt_tickets_in == <<32, 116, 105, 99, 107, 101, 116, 115, 32, 105, 110, 32, 116, 104, 101, 32, 108, 97, 115, 116, 32>>  \* ' tickets in the last '
txt_days == <<32, 100, 97, 121, 115, 46>>  \* ' days.'
txt_newline == <<10>>  \* '\n'

\* values used as inputs of the runs explored
a_STATUS == <<83, 84, 65, 84, 85, 83>>  \* 'STATUS'
a_priority == <<112, 114, 105, 111, 114, 105, 116, 121>>  \* 'priority'
a_empty == <<>>  \* ''
u_alice == <<97, 108, 105, 99, 101>>  \* 'alice'
u_Alice == <<65, 108, 105, 99, 101>>  \* 'Alice'
u_bob == <<98, 111, 98>>  \* 'bob'
t_Done == <<68, 111, 110, 101>>  \* 'Done'
t_DONE == <<68, 79, 78, 69>>  \* 'DONE'
t_Cancelled == <<67, 97, 110, 99, 101, 108, 108, 101, 100>>  \* 'Cancelled'
t_In_Progress == <<73, 110, 32, 80, 114, 111, 103, 114, 101, 115, 115>>  \* 'In Progress'
t_Awaiting_Feedback == <<65, 119, 97, 105, 116, 105, 110, 103, 32, 70, 101, 101, 100, 98, 97, 99, 107>>  \* 'Awaiting Feedback'
t_In_Review == <<73, 110, 32, 82, 101, 118, 105, 101, 119>>  \* 'In Review'
t_To_Do == <<84, 111, 32, 68, 111>>  \* 'To Do'
t_On_Hold == <<79, 110, 32, 72, 111, 108, 100>>  \* 'On Hold'
t_Open == <<79, 112, 101, 110>>  \* 'Open'
t_Blocked == <<66, 108, 111, 99, 107, 101, 100>>  \* 'Blocked'
t_Done_Done == <<68, 111, 110, 101, 32, 68, 111, 110, 101>>  \* 'Done Done'
t_todo == <<116, 111, 100, 111>>  \* 'todo'
key_A2 == <<65, 45, 50>>  \* 'A-2'
key_A10 == <<65, 45, 49, 48>>  \* 'A-10'
key_A11 == <<65, 45, 49, 49>>  \* 'A-11'
key_B1 == <<66, 45, 49>>  \* 'B-1'
key_B2 == <<66, 45, 50>>  \* 'B-2'
key_B3 == <<66, 45, 51>>  \* 'B-3'
key_C1 == <<67, 45, 49>>  \* 'C-1'
key_C2 == <<67, 45, 50>>  \* 'C-2'
key_C3 == <<67, 45, 51>>  \* 'C-3'
key_C4 == <<67, 45, 52>>  \* 'C-4'
key_C5 == <<67, 45, 53>>  \* 'C-5'
key_C6 == <<67, 45, 54>>  \* 'C-6'
key_C7 == <<67, 45, 55>>  \* 'C-7'
key_C8 == <<67, 45, 56>>  \* 'C-8'
key_C9 == <<67, 45, 57>>  \* 'C-9'
m_Fix_bug == <<70, 105, 120, 32, 98, 117, 103>>  \* 'Fix bug'
m_Add_feature == <<65, 100, 100, 32, 102, 101, 97, 116, 117, 114, 101>>  \* 'Add feature'
m_add_docs == <<97, 100, 100, 32, 100, 111, 99, 115>>  \* 'add docs'
m_Zap == <<90, 97, 112>>  \* 'Zap'

\* ----------------------------------------------------------------- bounds
MaxTickets == 3
MaxColorRows == 2

\* ------------------------------------------------------- string functions
\* str.lower(): ASCII upper-case letters map to lower case, all else kept
Lower(s) == [i \in 1..Len(s) |-> IF s[i] \in 65..90 THEN s[i] + 32 ELSE s[i]]

\* Python's a < b on strings: lexicographic on code points, a proper prefix
\* is smaller
StrLess(a, b) ==
    \E i \in 1..Len(b) :
        /\ \A j \in 1..(i - 1) : j <= Len(a) /\ a[j] = b[j]
        /\ (i > Len(a) \/ a[i] < b[i])

\* decimal rendering of a non-negative integer, as "{0}".format(n) does
RECURSIVE Dec(_)
Dec(n) == IF n < 10 THEN <<48 + n>> ELSE Dec(n \div 10) \o <<48 + (n % 10)>>

\* ------------------------------------------------------------ the service
\* a ticket as the client library hands it over: key, fields.summary,
\* fields.status.name, and the author names of its comments in order
Ticket(k, m, s, c) == [key |-> k, summary |-> m, status |-> s, comments |-> c]

\* tickets of the server, listed in the order "order by key" yields
\* (project, then issue number: A-2 before A-10)
TicketPool ==
    << Ticket(key_A2,  m_Fix_bug,     t_To_Do,       <<>>),
       Ticket(key_A10, m_Add_feature, t_Done,        <<u_alice>>),
       Ticket(key_A11, m_add_docs,    t_Done,        <<u_Alice, u_bob>>),
       Ticket(key_B1,  m_Zap,         s_in_progress, <<u_bob, u_alice>>),
       Ticket(key_B2,  m_Fix_bug,     t_Open,        <<>>),
       Ticket(key_B3,  m_Add_feature, t_DONE,        <<u_bob>>) >>

\* tickets covering every status key, case variants and near misses, in key
\* order; two entries with one key are alternatives for that ticket
ColorPool ==
    << Ticket(key_A2,  m_Fix_bug,     s_done,              <<>>),
       Ticket(key_A2,  m_Zap,         t_Open,              <<u_alice>>),
       Ticket(key_A10, m_Add_feature, t_Done,              <<u_alice>>),
       Ticket(key_A10, m_Fix_bug,     t_Blocked,           <<>>),
       Ticket(key_A11, m_add_docs,    t_DONE,              <<u_Alice>>),
       Ticket(key_B1,  m_Zap,         s_cancelled,         <<u_alice>>),
       Ticket(key_B1,  m_add_docs,    t_Done_Done,         <<>>),
       Ticket(key_B2,  m_Fix_bug,     t_Cancelled,         <<>>),
       Ticket(key_B2,  m_Zap,         t_todo,              <<u_alice>>),
       Ticket(key_B3,  m_Zap,         s_in_progress,       <<>>),
       Ticket(key_C1,  m_add_docs,    t_In_Progress,       <<u_alice>>),
       Ticket(key_C1,  m_Fix_bug,     a_empty,             <<>>),
       Ticket(key_C2,  m_Fix_bug,     s_awaiting_feedback, <<>>),
       Ticket(key_C3,  m_Zap,         t_Awaiting_Feedback, <<u_alice>>),
       Ticket(key_C4,  m_Fix_bug,     s_in_review,         <<u_alice>>),
       Ticket(key_C5,  m_Zap,         t_In_Review,         <<>>),
       Ticket(key_C6,  m_Fix_bug,     s_to_do,             <<u_alice>>),
       Ticket(key_C7,  m_Zap,         t_To_Do,             <<>>),
       Ticket(key_C8,  m_add_docs,    s_on_hold,           <<>>),
       Ticket(key_C9,  m_Fix_bug,     t_On_Hold,           <<u_alice>>) >>

\* the order-preserving selections of at most n tickets of a pool with
\* distinct keys: what a search can match
RECURSIVE SubSeqs(_, _)
SubSeqs(pool, n) ==
    IF pool = <<>> \/ n = 0 THEN {<<>>}
    ELSE LET rest == SubSeqs(Tail(pool), n)
             with == {<<Head(pool)>> \o s : s \in SubSeqs(Tail(pool), n - 1)}
         IN  rest \cup {s \in with : \A i \in 2..Len(s) : s[i].key # Head(pool).key}

SortByValues == {k_ticket, k_summary, k_status, k_interacted,
                 a_Status, a_STATUS, a_priority, a_empty}
Users == {u_alice, u_bob}
DaysValues == {7, 14}
MaxResultsValues == {2, 100}

\* ------------------------------------------------------------------ state
VARIABLES
    jira,               \* server side: the tickets matching the query, in key order
    arguments,          \* the parsed command line
    pc,                 \* position of the run
    sort_idx,           \* track_tickets' local; -1 while unbound
    assigned_tickets,   \* get_active_tickets' local: the search result
    interacted_tickets, \* get_active_tickets' local: rows built so far
    active_tickets,     \* track_tickets' local: the returned rows
    events,             \* network calls and prints of the run, in order
    stdout,             \* what has been printed
    exception           \* the error that ended the run, "None" if none

vars == <<jira, arguments, pc, sort_idx, assigned_tickets, interacted_tickets,
          active_tickets, events, stdout, exception>>

Event(o, a, k) == [op |-> o, arg |-> a, ok |-> k]

\* ------------------------------------------------------- pure functions
\* an author match that folds case
has_user_commented_FoldCase(comments, user) ==
    IF \E i \in 1..Len(comments) : Lower(comments[i]) = Lower(user) THEN Yes ELSE No

\* has_user_commented, given the comments the fetch returned
has_user_commented(comments, user) ==
    LET authors == [i \in 1..Len(comments) |-> comments[i]]
    IN  IF \E i \in 1..Len(authors) : authors[i] = user THEN Yes ELSE No

\* a row builder that normalises the status
get_ticket_data_LowerStatus(ticket, comments, user) ==
    <<ticket.key, ticket.summary, Lower(ticket.status), has_user_commented(comments, user)>>

\* get_ticket_data, given the comments the fetch returned
get_ticket_data(ticket, comments, user) ==
    LET name      == ticket.key
        summary   == ticket.summary
        status    == ticket.status
        commented == has_user_commented(comments, user)
    IN  <<name, summary, status, commented>>

\* the headers dictionary of track_tickets
headers == (k_ticket :> 0) @@ (k_summary :> 1) @@ (k_status :> 2) @@ (k_interacted :> 3)

green_keys  == {s_done, s_cancelled}
yellow_keys == {s_in_progress, s_awaiting_feedback, s_in_review}
red_keys    == {s_to_do, s_on_hold}

Wrap(color, text) == [i \in 1..Len(text) |-> color \o text[i] \o RESET]

\* a colour rule that compares the status as it is written
color_text_NoLower(text) ==
    IF text = <<>> THEN <<>>
    ELSE LET st == text[Len(text) - 1]
         IN  IF st \in green_keys THEN Wrap(GREEN, text)
             ELSE IF st \in yellow_keys THEN Wrap(YELLOW, text)
             ELSE IF st \in red_keys THEN Wrap(RED, text)
             ELSE text

\* color_text; text[-2] is text[Len(text) - 1] (a one-element list raises
\* IndexError and is never passed)
color_text(text) ==
    IF text = <<>> THEN <<>>
    ELSE LET st == Lower(text[Len(text) - 1])
         IN  IF st \in green_keys THEN Wrap(GREEN, text)
             ELSE IF st \in yellow_keys THEN Wrap(YELLOW, text)
             ELSE IF st \in red_keys THEN Wrap(RED, text)
             ELSE text

clean_row_data(data) == [i \in 1..Len(data) |-> color_text(data[i])]

\* sorted with a key that folds case
InsertRow_FoldCase(srt, x, idx) ==
    LET later == {i \in 1..Len(srt) : StrLess(Lower(x[idx + 1]), Lower(srt[i][idx + 1]))}
        pos   == IF later = {} THEN Len(srt) + 1
                 ELSE CHOOSE i \in later : \A j \in later : i <= j
    IN  SubSeq(srt, 1, pos - 1) \o <<x>> \o SubSeq(srt, pos, Len(srt))

\* sorted(rows, key=lambda x: x[idx]): stable, compares keys with < only.
\* Insert puts x before the first row whose key is greater than x's key.
InsertRow(srt, x, idx) ==
    LET later == {i \in 1..Len(srt) : StrLess(x[idx + 1], srt[i][idx + 1])}
        pos   == IF later = {} THEN Len(srt) + 1
                 ELSE CHOOSE i \in later : \A j \in later : i <= j
    IN  SubSeq(srt, 1, pos - 1) \o <<x>> \o SubSeq(srt, pos, Len(srt))

RECURSIVE sorted(_, _)
sorted(rows, idx) ==
    IF rows = <<>> THEN <<>>
    ELSE InsertRow(sorted(SubSeq(rows, 1, Len(rows) - 1), idx), rows[Len(rows)], idx)

\* rows handed over unsorted
TableRows_Unsorted(rows, idx) == clean_row_data(rows)

\* rows coloured first and sorted afterwards
TableRows_ColorFirst(rows, idx) == sorted(clean_row_data(rows), idx)

\* the rows handed to tabulate by track_tickets
TableRows(rows, idx) == clean_row_data(sorted(rows, idx))

\* a summary sentence with the two numbers in each other's place
SummaryLine_Swapped(user, n, days) ==
    txt_User \o user \o txt_worked_on \o Dec(days) \o txt_tickets_in \o Dec(n) \o txt_days

\* the summary sentence of track_tickets
SummaryLine(user, n, days) ==
    txt_User \o user \o txt_worked_on \o Dec(n) \o txt_tickets_in \o Dec(days) \o txt_days

TableHeaders == <<h_Ticket, a_Summary, a_Status, h_Interacted>>

\* search_issues(query, maxResults=max_results): the first max_results matches
SearchResult(matches, max_results) ==
    SubSeq(matches, 1, IF Len(matches) < max_results THEN Len(matches) ELSE max_results)

\* ------------------------------------------------------------------- init
InitWith(matches, users, sorts) ==
    /\ jira \in matches
    /\ arguments \in [user : users, days : DaysValues,
                      max_results : MaxResultsValues, sort_by : sorts]
    /\ pc = "main"
    /\ sort_idx = -1
    /\ assigned_tickets = <<>>
    /\ interacted_tickets = <<>>
    /\ active_tickets = <<>>
    /\ events = <<>>
    /\ stdout = <<>>
    /\ exception = "None"

Init == InitWith(SubSeqs(TicketPool, MaxTickets), Users, SortByValues)

InitColor == InitWith(SubSeqs(ColorPool, MaxColorRows), {u_alice},
                      {k_status, a_STATUS, k_ticket, a_priority})

\* ---------------------------------------------------------------- actions
Raise(e) == pc' = "failed" /\ exception' = e

\* main: session = create_jira_session(); JIRA(...) contacts the server
create_jira_session ==
    /\ pc = "main"
    /\ events' = Append(events, Event("session", <<>>, TRUE))
    /\ pc' = "track"
    /\ UNCHANGED <<jira, arguments, sort_idx, assigned_tickets,
                   interacted_tickets, active_tickets, stdout, exception>>

create_jira_session_fails ==
    /\ pc = "main"
    /\ events' = Append(events, Event("session", <<>>, FALSE))
    /\ Raise("AuthenticationError")
    /\ UNCHANGED <<jira, arguments, sort_idx, assigned_tickets,
                   interacted_tickets, active_tickets, stdout>>

\* track_tickets: sort_idx = headers[sort_by.lower()]
lookup_sort_idx ==
    /\ pc = "track"
    /\ Lower(arguments.sort_by) \in DOMAIN headers
    /\ sort_idx' = headers[Lower(arguments.sort_by)]
    /\ pc' = "search"
    /\ UNCHANGED <<jira, arguments, assigned_tickets, interacted_tickets,
                   active_tickets, events, stdout, exception>>

\* a lookup that falls back to the first column: headers.get(key, 0)
lookup_sort_idx_fails_Default ==
    /\ pc = "track"
    /\ Lower(arguments.sort_by) \notin DOMAIN headers
    /\ sort_idx' = 0
    /\ pc' = "search"
    /\ UNCHANGED <<jira, arguments, assigned_tickets, interacted_tickets,
                   active_tickets, events, stdout, exception>>

lookup_sort_idx_fails ==
    /\ pc = "track"
    /\ Lower(arguments.sort_by) \notin DOMAIN headers
    /\ Raise("KeyError")
    /\ UNCHANGED <<jira, arguments, sort_idx, assigned_tickets,
                   interacted_tickets, active_tickets, events, stdout>>

\* get_active_tickets: assigned_tickets = get_user_tickets_in_range(...)
get_user_tickets_in_range ==
    /\ pc = "search"
    /\ assigned_tickets' = SearchResult(jira, arguments.max_results)
    /\ interacted_tickets' = <<>>
    /\ events' = Append(events, Event("search", <<>>, TRUE))
    /\ pc' = "loop"
    /\ UNCHANGED <<jira, arguments, sort_idx, active_tickets, stdout, exception>>

get_user_tickets_in_range_fails ==
    /\ pc = "search"
    /\ events' = Append(events, Event("search", <<>>, FALSE))
    /\ Raise("QueryError")
    /\ UNCHANGED <<jira, arguments, sort_idx, assigned_tickets,
                   interacted_tickets, active_tickets, stdout>>

\* a loop that walks the search result from its end
loop_iteration_Reversed ==
    /\ pc = "loop"
    /\ Len(interacted_tickets) < Len(assigned_tickets)
    /\ LET ticket == assigned_tickets[Len(assigned_tickets) - Len(interacted_tickets)]
           row    == get_ticket_data(ticket, ticket.comments, arguments.user)
       IN  /\ events' = Append(events, Event("comments", ticket.key, TRUE))
           /\ interacted_tickets' = Append(interacted_tickets, row)
    /\ UNCHANGED <<jira, arguments, pc, sort_idx, assigned_tickets,
                   active_tickets, stdout, exception>>

\* one iteration of "for ticket in assigned_tickets": fetch the comments,
\* build the row, append it
loop_iteration ==
    /\ pc = "loop"
    /\ Len(interacted_tickets) < Len(assigned_tickets)
    /\ LET ticket == assigned_tickets[Len(interacted_tickets) + 1]
           row    == get_ticket_data(ticket, ticket.comments, arguments.user)
       IN  /\ events' = Append(events, Event("comments", ticket.key, TRUE))
           /\ interacted_tickets' = Append(interacted_tickets, row)
    /\ UNCHANGED <<jira, arguments, pc, sort_idx, assigned_tickets,
                   active_tickets, stdout, exception>>

\* a loop that catches the failed fetch and goes on with a 'No' row
loop_iteration_fails_Degrade ==
    /\ pc = "loop"
    /\ Len(interacted_tickets) < Len(assigned_tickets)
    /\ LET ticket == assigned_tickets[Len(interacted_tickets) + 1]
       IN  /\ events' = Append(events, Event("comments", ticket.key, FALSE))
           /\ interacted_tickets' = Append(interacted_tickets,
                                           <<ticket.key, ticket.summary, ticket.status, No>>)
    /\ UNCHANGED <<jira, arguments, pc, sort_idx, assigned_tickets,
                   active_tickets, stdout, exception>>

\* session.comments(ticket) raises: nothing catches it
loop_iteration_fails ==
    /\ pc = "loop"
    /\ Len(interacted_tickets) < Len(assigned_tickets)
    /\ LET ticket == assigned_tickets[Len(interacted_tickets) + 1]
       IN  events' = Append(events, Event("comments", ticket.key, FALSE))
    /\ Raise("FetchError")
    /\ UNCHANGED <<jira, arguments, sort_idx, assigned_tickets,
                   interacted_tickets, active_tickets, stdout>>

\* the loop is exhausted: return interacted_tickets to track_tickets
get_active_tickets_returns ==
    /\ pc = "loop"
    /\ Len(interacted_tickets) = Len(assigned_tickets)
    /\ active_tickets' = interacted_tickets
    /\ pc' = "present"
    /\ UNCHANGED <<jira, arguments, sort_idx, assigned_tickets,
                   interacted_tickets, events, stdout, exception>>

\* track_tickets: tabulate(clean_row_data(sorted(...))) and the three prints
present ==
    /\ pc = "present"
    /\ LET rows == TableRows(active_tickets, sort_idx)
           line == SummaryLine(arguments.user, Len(active_tickets), arguments.days)
       IN  stdout' = stdout \o
               << [kind |-> "text", text |-> txt_newline],
                  [kind |-> "table", headers |-> TableHeaders, rows |-> rows],
                  [kind |-> "text", text |-> line] >>
    /\ events' = events \o << Event("print", <<>>, TRUE), Event("print", <<>>, TRUE),
                              Event("print", <<>>, TRUE) >>
    /\ pc' = "done"
    /\ UNCHANGED <<jira, arguments, sort_idx, assigned_tickets,
                   interacted_tickets, active_tickets, exception>>

Next ==
    \/ create_jira_session
    \/ create_jira_session_fails
    \/ lookup_sort_idx
    \/ lookup_sort_idx_fails
    \/ get_user_tickets_in_range
    \/ get_user_tickets_in_range_fails
    \/ loop_iteration
    \/ loop_iteration_fails
    \/ get_active_tickets_returns
    \/ present

Spec == Init /\ [][Next]_vars

SpecColor == InitColor /\ [][Next]_vars

\* ------------------------------------------------------------- properties
ColorPrefixes == {RED, GREEN, YELLOW}

HasPrefix(f, p) == Len(f) >= Len(p) /\ SubSeq(f, 1, Len(p)) = p
HasSuffix(f, p) == Len(f) >= Len(p) /\ SubSeq(f, Len(f) - Len(p) + 1, Len(f)) = p

\* a rendered field without its colour prefix and reset
Strip(f) ==
    IF \E c \in ColorPrefixes : HasPrefix(f, c) /\ HasSuffix(f, RESET) /\ Len(f) >= Len(c) + Len(RESET)
    THEN LET c == CHOOSE c \in ColorPrefixes : HasPrefix(f, c)
         IN  SubSeq(f, Len(c) + 1, Len(f) - Len(RESET))
    ELSE f

StripRow(r) == [i \in 1..Len(r) |-> Strip(r[i])]

\* the data rows of the printed table
Rendered == stdout[2].rows

ValidSort == Lower(arguments.sort_by) \in {k_ticket, k_summary, k_status, k_interacted}

\* the column a valid sort_by names, counted from 1
SelectedColumn ==
    CASE Lower(arguments.sort_by) = k_ticket     -> 1
      [] Lower(arguments.sort_by) = k_summary    -> 2
      [] Lower(arguments.sort_by) = k_status     -> 3
      [] Lower(arguments.sort_by) = k_interacted -> 4

\* code-point order, written without StrLess: a <= b
CodePointLeq(a, b) ==
    \/ Len(a) <= Len(b) /\ \A i \in 1..Len(a) : a[i] = b[i]
    \/ \E i \in 1..Len(a) :
          /\ i <= Len(b)
          /\ \A j \in 1..(i - 1) : a[j] = b[j]
          /\ a[i] < b[i]

NonDecreasing(rows, c) ==
    \A i \in 1..(Len(rows) - 1) : CodePointLeq(Strip(rows[i][c]), Strip(rows[i + 1][c]))

SearchReturned == \E i \in 1..Len(events) : events[i].op = "search" /\ events[i].ok

OpCount(o) == Cardinality({i \in 1..Len(events) : events[i].op = o})

\* C1: whenever the report has been printed for a sort_by that lowercases to
\* ticket, summary, status or interacted, the printed rows are in
\* non-decreasing code-point order of the uncoloured values of that column.
C1_RowsSortedBySelectedColumn ==
    pc = "done" => NonDecreasing(Rendered, SelectedColumn)

\* a printed report sorted by 'STATUS' whose rows were reordered and whose
\* case-sensitive order differs from the case-insensitive one
C1_Witness ==
    /\ pc = "done"
    /\ arguments.sort_by = a_STATUS
    /\ Len(Rendered) >= 2
    /\ Strip(Rendered[1][1]) # active_tickets[1][1]
    /\ \E i \in 1..(Len(Rendered) - 1) :
          ~CodePointLeq(Lower(Strip(Rendered[i][3])), Lower(Strip(Rendered[i + 1][3])))

ColorClass(status) ==
    LET st == Lower(status)
    IN  IF st \in {s_done, s_cancelled} THEN GREEN
        ELSE IF st \in {s_in_progress, s_awaiting_feedback, s_in_review} THEN YELLOW
        ELSE IF st \in {s_to_do, s_on_hold} THEN RED
        ELSE <<>>

\* a built row as the rule says it is printed
ColoredAsRuled(row) ==
    IF ColorClass(row[3]) = <<>> THEN row
    ELSE [i \in 1..4 |-> ColorClass(row[3]) \o row[i] \o RESET]

\* the colour prefix a printed row carries on field i, <<>> if none
FieldColor(row, i) ==
    IF \E c \in ColorPrefixes : HasPrefix(row[i], c)
    THEN CHOOSE c \in ColorPrefixes : HasPrefix(row[i], c)
    ELSE <<>>

\* C3: every printed row is a built row coloured by the class of its
\* lowercased status alone: green, yellow, red or none as enumerated, all
\* four fields wrapped alike in a matched row and left unchanged in an
\* unmatched one; rows with statuses equal after lowercasing carry the same
\* colour.
C3_ColorByLowercasedStatus ==
    pc = "done" =>
        /\ Len(Rendered) = Len(active_tickets)
        /\ \A j \in 1..Len(active_tickets) :
              \E i \in 1..Len(Rendered) : Rendered[i] = ColoredAsRuled(active_tickets[j])
        /\ \A i \in 1..Len(Rendered) :
              /\ \E j \in 1..Len(active_tickets) : Rendered[i] = ColoredAsRuled(active_tickets[j])
              /\ \A k \in 1..4 : FieldColor(Rendered[i], k) = FieldColor(Rendered[i], 1)
        /\ \A i, j \in 1..Len(Rendered) :
              Lower(Strip(Rendered[i][3])) = Lower(Strip(Rendered[j][3]))
                  => FieldColor(Rendered[i], 1) = FieldColor(Rendered[j], 1)

\* a printed table with a coloured row whose status is not in lower case and
\* an uncoloured row
C3_Witness ==
    /\ pc = "done"
    /\ \E i \in 1..Len(Rendered) :
          /\ FieldColor(Rendered[i], 1) # <<>>
          /\ Strip(Rendered[i][3]) # Lower(Strip(Rendered[i][3]))
    /\ \E i \in 1..Len(Rendered) : FieldColor(Rendered[i], 1) = <<>>

FetchFailed == \E i \in 1..Len(events) : events[i].op = "comments" /\ ~events[i].ok

\* C4: once a comment fetch has failed the run is in its failure state with
\* that error, nothing has been printed, the failed fetch is the last event
\* and no ticket's comments were fetched twice.
C4_NoPartialResult ==
    FetchFailed =>
        /\ pc = "failed"
        /\ exception = "FetchError"
        /\ stdout = <<>>
        /\ OpCount("print") = 0
        /\ ~events[Len(events)].ok
        /\ \A i \in 1..(Len(events) - 1) : events[i].ok
        /\ \A i, j \in 1..Len(events) :
              (i # j /\ events[i].op = "comments" /\ events[j].op = "comments")
                  => events[i].arg # events[j].arg

\* the comment fetch of the middle one of three tickets has failed
C4_Witness ==
    /\ FetchFailed
    /\ Len(assigned_tickets) = 3
    /\ Len(interacted_tickets) = 1

\* C5 as stated: a run with an invalid sort_by makes no network call at all,
\* prints nothing, binds no sort column and fails with the key error only.
C5_FailsBeforeAnyNetworkCall ==
    ~ValidSort =>
        /\ events = <<>>
        /\ stdout = <<>>
        /\ sort_idx = -1
        /\ pc # "done"
        /\ exception \in {"None", "KeyError"}

\* C5 amended: a run with an invalid sort_by creates the session first; it
\* never issues the ticket search or a comment fetch, prints nothing, binds no
\* sort column and never completes; when the session was created the run
\* fails with the key error right after it.
C5_FailsAfterSessionBeforeSearch ==
    ~ValidSort =>
        /\ OpCount("search") = 0
        /\ OpCount("comments") = 0
        /\ OpCount("print") = 0
        /\ stdout = <<>>
        /\ sort_idx = -1
        /\ pc \in {"main", "track", "failed"}
        /\ exception \in {"None", "AuthenticationError", "KeyError"}
        /\ exception = "KeyError" => events = <<Event("session", <<>>, TRUE)>>
        /\ (pc = "failed" /\ events[1].ok) => exception = "KeyError"

\* sort_by 'priority' has raised the key error
C5_Witness ==
    /\ arguments.sort_by = a_priority
    /\ exception = "KeyError"
    /\ pc = "failed"

\* the digits of the day counts and row counts that occur, written out
ShownNumber(n) ==
    CASE n = 0  -> <<48>>
      [] n = 1  -> <<49>>
      [] n = 2  -> <<50>>
      [] n = 3  -> <<51>>
      [] n = 4  -> <<52>>
      [] n = 5  -> <<53>>
      [] n = 7  -> <<55>>
      [] n = 14 -> <<49, 52>>

\* the summary sentence for n tickets, spelled out
SummaryFor(n) ==
    txt_User \o arguments.user \o txt_worked_on \o ShownNumber(n)
        \o txt_tickets_in \o ShownNumber(arguments.days) \o txt_days

\* C6: after a search that returned no ticket the run does not fail, can
\* issue no comment fetch and can always take its next step up to the
\* printing; the report it prints has no data row and the summary sentence
\* with 0 tickets for the given user and days.
C6_EmptySearchGivesEmptyReport ==
    (SearchReturned /\ assigned_tickets = <<>>) =>
        /\ exception = "None"
        /\ pc \in {"loop", "present", "done"}
        /\ OpCount("comments") = 0
        /\ ~ENABLED loop_iteration /\ ~ENABLED loop_iteration_fails
        /\ pc # "done" => ENABLED (get_active_tickets_returns \/ present)
        /\ pc = "done" =>
              /\ Len(stdout) = 3
              /\ Rendered = <<>>
              /\ stdout[3].text = SummaryFor(0)

\* the report of a run whose search returned nothing has been printed
C6_Witness ==
    /\ SearchReturned
    /\ assigned_tickets = <<>>
    /\ pc = "done"
    /\ ValidSort

RowMatchesTicket(row, ticket) ==
    /\ Len(row) = 4
    /\ row[1] = ticket.key
    /\ row[2] = ticket.summary
    /\ row[3] = ticket.status

\* C7: the rows built so far are, position by position, the key, summary and
\* status name of the tickets of the search result, unmodified, and the list
\* get_active_tickets returns has one row per ticket of the search result.
C7_OneRowPerTicketInOrder ==
    /\ Len(interacted_tickets) <= Len(assigned_tickets)
    /\ \A i \in 1..Len(interacted_tickets) :
          RowMatchesTicket(interacted_tickets[i], assigned_tickets[i])
    /\ pc \in {"present", "done"} =>
          /\ Len(active_tickets) = Len(assigned_tickets)
          /\ \A i \in 1..Len(active_tickets) :
                RowMatchesTicket(active_tickets[i], assigned_tickets[i])

\* three rows have been returned, one of a status that is coloured later and
\* is not written in lower case
C7_Witness ==
    /\ pc = "present"
    /\ Len(active_tickets) = 3
    /\ \E i \in 1..3 :
          /\ ColorClass(active_tickets[i][3]) # <<>>
          /\ active_tickets[i][3] # Lower(active_tickets[i][3])

\* every order in which the given rows can be built
BuildOrders(rows) ==
    LET n == Len(rows)
        perms == {f \in [1..n -> 1..n] : \A i, j \in 1..n : f[i] = f[j] => i = j}
    IN  {[i \in 1..n |-> rows[f[i]]] : f \in perms}

NoTies(rows, idx) ==
    \A i, j \in 1..Len(rows) : i # j => rows[i][idx + 1] # rows[j][idx + 1]

ExpectedEvents(tickets) ==
    << Event("session", <<>>, TRUE), Event("search", <<>>, TRUE) >>
        \o [i \in 1..Len(tickets) |-> Event("comments", tickets[i].key, TRUE)]
        \o << Event("print", <<>>, TRUE), Event("print", <<>>, TRUE),
              Event("print", <<>>, TRUE) >>

\* C9: the events of a run are an initial part of: session creation, one
\* search, one comment fetch per returned ticket in search-result order, the
\* prints; a failed call is the last event of its run; no fetch precedes the
\* return of the search; nothing is printed before all fetches succeeded; a
\* completed run has all these events.
C9_EventsInFixedOrder ==
    LET expected == IF SearchReturned THEN ExpectedEvents(assigned_tickets)
                    ELSE SubSeq(ExpectedEvents(<<>>), 1, 2)
    IN  /\ Len(events) <= Len(expected)
        /\ \A i \in 1..Len(events) :
              /\ events[i].op = expected[i].op
              /\ events[i].arg = expected[i].arg
              /\ ~events[i].ok => (i = Len(events) /\ pc = "failed")
        /\ OpCount("search") <= 1
        /\ OpCount("comments") > 0 => SearchReturned
        /\ (stdout # <<>> \/ OpCount("print") > 0) =>
              /\ OpCount("comments") = Len(assigned_tickets)
              /\ \A i \in 1..Len(events) : events[i].ok
        /\ pc = "done" => events = expected
        /\ (Len(events) >= 1 /\ ~events[1].ok) => OpCount("search") = 0

\* a run over three tickets has completed
C9_Witness ==
    /\ pc = "done"
    /\ Len(assigned_tickets) = 3
    /\ OpCount("comments") = 3

IsPermutation(a, b) ==
    /\ Len(a) = Len(b)
    /\ \E f \in [1..Len(a) -> 1..Len(a)] :
          /\ \A i, j \in 1..Len(a) : f[i] = f[j] => i = j
          /\ \A i \in 1..Len(a) : a[i] = b[f[i]]

\* C10: the printed rows, stripped of colour, are a permutation of the built
\* rows, each of four fields, in the order sorting the uncoloured rows gives;
\* their number is the number of tickets of the search result and the N of
\* the summary sentence.
C10_PresentationOnlyReordersAndWraps ==
    pc = "done" =>
        /\ \A i \in 1..Len(Rendered) : Len(Rendered[i]) = 4
        /\ IsPermutation([i \in 1..Len(Rendered) |-> StripRow(Rendered[i])], active_tickets)
        /\ NonDecreasing(Rendered, sort_idx + 1)
        /\ Len(Rendered) = Len(assigned_tickets)
        /\ stdout[3].text = SummaryFor(Len(Rendered))

\* a printed report of three rows, coloured and uncoloured, reordered by the
\* sort
C10_Witness ==
    /\ pc = "done"
    /\ Len(Rendered) = 3
    /\ \E i \in 1..3 : FieldColor(Rendered[i], 1) # <<>>
    /\ \E i \in 1..3 : FieldColor(Rendered[i], 1) = <<>>
    /\ \E i \in 1..3 : StripRow(Rendered[i]) # active_tickets[i]

====
